---- MODULE Spec2Model ----
(***************************************************************************)
(* Model of the incremental synchronisation cycle of                       *)
(* app/sync_and_process.py: atualizar_csvs_popular_db_e_treinar and the    *)
(* functions it calls (carregar/salvar_estado_local, obter_lista_remota,   *)
(* baixar_arquivo_csv, popular_sqlite, treinar_modelo_forecast_rs).        *)
(*                                                                         *)
(* Durable state: state.json (stateFile), the SQLite file (dbExists,       *)
(* tables) and the pickled forecast model (model).  The local variables of *)
(* the running cycle are estado_local, lista_remota, idx (position in the  *)
(* for loop), houve_atualizacao and producao_atualizada.  The remaining    *)
(* variables are history variables that record what the current cycle did. *)
(***************************************************************************)
EXTENDS Integers, Sequences, FiniteSets, TLC

\* ------------------------------------------------------------------ bounds
\* Number of distinct modification instants the remote listing can show.
MaxTime == 2
\* Number of cycles a behaviour runs.
MaxCycles == 2

\* ------------------------------------------------------------- file names
\* Names the remote listing can offer (all end in ".csv", line 106).
Names == {"Producao.csv", "Comercio.csv"}

\* os.path.splitext(nome_arquivo)[0].lower()   (line 367)
BaseName(nome) ==
  CASE nome = "Producao.csv" -> "producao"
    [] nome = "Comercio.csv" -> "comercio"
    [] nome = "PRODUCAO.CSV" -> "producao"
    [] nome = "comercio.csv" -> "comercio"

\* nome.lower().startswith("producao")   (lines 269, 290, 334)
ComecaComProducao(nome) ==
  CASE nome = "Producao.csv" -> TRUE
    [] nome = "Comercio.csv" -> FALSE

TableNames == {BaseName(n) : n \in Names}

\* ------------------------------------------------------------- timestamps
\* A last-modified string.  kind "ok": a string strptime accepts under
\* FORMATO_DATA, denoting instant `time`; `padded` tells the zero-padded
\* spelling ("2024-01-05 03:04") from the unpadded one ("2024-1-5 3:04"),
\* which strptime parses to the same instant.  kind "bad": a string that
\* strptime rejects.  kind "none": no string (no entry in a dict).
TsNone == [kind |-> "none", time |-> 0, padded |-> TRUE]
TsBad  == [kind |-> "bad",  time |-> 0, padded |-> TRUE]
\* The strings of the model: the padded spelling of every instant and the
\* unpadded spelling of the first one.
TsOk   == {[kind |-> "ok", time |-> t, padded |-> TRUE] : t \in 1..MaxTime}
            \cup {[kind |-> "ok", time |-> 1, padded |-> FALSE]}
TsRemotos == TsOk \cup {TsBad}

\* parse_datetime: does strptime accept the string, and the instant it gives
ParseOk(texto) == texto.kind = "ok"
parse_datetime(texto) == texto.time

\* ------------------------------------------------------------ SyncState
\* A dict {nome -> last_mod_str}; TsNone marks a name without an entry.
\* A missing state.json loads as the empty dict (lines 72-76).
EstadoVazio == [n \in Names |-> TsNone]
\* A state.json cut short by an interrupted write: json.load rejects it.
TsTruncado == [kind |-> "truncated", time |-> 0, padded |-> TRUE]
EstadoTruncado == [n \in Names |-> TsTruncado]
ArquivoLegivel(arquivo) == \A n \in Names : arquivo[n].kind # "truncated"
TemEntrada(estado, nome) == estado[nome].kind # "none"

\* ------------------------------------------------------------ the store
TabAusente == [kind |-> "absent", version |-> 0]
TabVazia   == [kind |-> "empty",  version |-> 0]
TabLinhas(v) == [kind |-> "rows", version |-> v]
SemTabelas == [t \in TableNames |-> TabAusente]

ModeloAusente   == [kind |-> "none",    version |-> 0]
ModeloCorrupto  == [kind |-> "corrupt", version |-> 0]
ModeloDe(v)     == [kind |-> "model",   version |-> v]

\* ------------------------------------------------------------ the catalog
Entradas == [nome : Names, last_mod : TsRemotos]
NomesDistintos(s) ==
  \A i, j \in 1..Len(s) : i # j => s[i].nome # s[j].nome
\* dicts obter_lista_remota can return: each name at most once, in the
\* order of the rows of the listing (lines 97-110)
Catalogos ==
  {s \in UNION {[1..k -> Entradas] : k \in 0..Cardinality(Names)} :
     NomesDistintos(s)}

NomesDe(s) == {s[i].nome : i \in 1..Len(s)}
\* lista_remota[nome]
RemotoDe(s, nome) ==
  IF nome \in NomesDe(s)
  THEN (CHOOSE e \in {s[i] : i \in 1..Len(s)} : e.nome = nome).last_mod
  ELSE TsNone

VARIABLES
  stateFile,            \* contents of state.json
  dbExists,             \* os.path.isfile(DB_PATH)
  tables,               \* the tables of embrapa.db written by popular_sqlite
  model,                \* forecast_producao_rs.pkl
  pc,                   \* position of the cycle
  estado_local,         \* local dict of the running cycle
  lista_remota,         \* catalog of the running (or last) cycle
  idx,                  \* position of the for loop in lista_remota
  houve_atualizacao,
  producao_atualizada,
  pre,                  \* history: durable state when the cycle started
  carregado,            \* history: dict returned by carregar_estado_local
  baixados,             \* history: names baixar_arquivo_csv was called for
  gravados,             \* history: names fetched, parsed, normalized, stored
  falhos,               \* history: names whose processing failed
  escritas,             \* history: tables to_sql was started on
  salvou,               \* history: salvar_estado_local calls of the cycle
  treinou,              \* history: treinar_modelo_forecast_rs was called
  resultado,            \* history: how the last cycle ended
  armazenado,           \* history: latest instant ever stored, per name
  ciclos,               \* history: cycles started so far
  entrada,              \* argument of the function exercised on its own
  saida                 \* what that function returned

vars == <<stateFile, dbExists, tables, model, pc, estado_local, lista_remota,
          idx, houve_atualizacao, producao_atualizada, pre, carregado,
          baixados, gravados, falhos, escritas, salvou, treinou, resultado,
          armazenado, ciclos, entrada, saida>>

durable == <<stateFile, dbExists, tables, model>>
locals  == <<estado_local, lista_remota, idx, houve_atualizacao,
             producao_atualizada>>

Duravel == [stateFile |-> stateFile, dbExists |-> dbExists,
            tables |-> tables, model |-> model]

\* The state before the first cycle: no state.json, no DB file, no model.
InitCiclo ==
  /\ stateFile = EstadoVazio
  /\ dbExists = FALSE
  /\ tables = SemTabelas
  /\ model = ModeloAusente
  /\ pc = "idle"
  /\ estado_local = EstadoVazio
  /\ lista_remota = << >>
  /\ idx = 0
  /\ houve_atualizacao = FALSE
  /\ producao_atualizada = FALSE
  /\ pre = [stateFile |-> EstadoVazio, dbExists |-> FALSE,
            tables |-> SemTabelas, model |-> ModeloAusente]
  /\ carregado = EstadoVazio
  /\ baixados = {}
  /\ gravados = {}
  /\ falhos = {}
  /\ escritas = {}
  /\ salvou = 0
  /\ treinou = FALSE
  /\ resultado = "nenhum"
  /\ armazenado = [n \in Names |-> 0]
  /\ ciclos = 0

cicloVars == <<stateFile, dbExists, tables, model, pc, estado_local,
               lista_remota, idx, houve_atualizacao, producao_atualizada,
               pre, carregado, baixados, gravados, falhos, escritas, salvou,
               treinou, resultado, armazenado, ciclos>>

Init ==
  /\ InitCiclo
  /\ entrada = << >>
  /\ saida = << >>


\* ---------------------------------------------------------- decisions
\* A step 0 that removes state.json whatever the store holds.
DeveInvalidarSempre(db, tbls) == TRUE

\* Step 0 (lines 224-239): state.json is removed when the DB file is missing
\* or has no table named 'producao'.
DeveInvalidar(db, tbls) == ~db \/ tbls["producao"].kind = "absent"

\* The comparison of line 280 written with >= instead of >.
MudouOuIgual(estado, nome, last_mod) ==
  \/ ~TemEntrada(estado, nome)
  \/ ~ParseOk(estado[nome])
  \/ parse_datetime(last_mod) >= parse_datetime(estado[nome])

\* Lines 258 and 276-280: the entry is new, or its recorded string does not
\* parse (dt_local is None), or dt_remoto > dt_local.
Mudou(estado, nome, last_mod) ==
  \/ ~TemEntrada(estado, nome)
  \/ ~ParseOk(estado[nome])
  \/ parse_datetime(last_mod) > parse_datetime(estado[nome])

\* A cycle that saves state.json whether or not anything was updated.
DeveSalvarSempre(houve) == TRUE

\* Line 296: state.json is written only when houve_atualizacao.
DeveSalvar(houve) == houve

\* Line 298: the trainer is called only when producao_atualizada.
DeveTreinar(prod) == prod

Max(a, b) == IF a >= b THEN a ELSE b

\* A load that ignores the file.
carregar_estado_local_vazio(arquivo) == EstadoVazio

\* Lines 72-76: the dict of state.json; {} when the file is missing.
carregar_estado_local(arquivo) == arquivo

\* A dict that keeps nothing but the entry just fetched.
RegistrarSo(estado, nome, last_mod) ==
  [EstadoVazio EXCEPT ![nome] = last_mod]

\* Lines 262 and 283: estado_local[nome] = last_mod_str
Registrar(estado, nome, last_mod) == [estado EXCEPT ![nome] = last_mod]

\* ------------------------------------------------------- end of a cycle
\* The function returns or an exception leaves it: the locals are gone.
FimDoCiclo(res) ==
  /\ pc' = "idle"
  /\ resultado' = res
  /\ estado_local' = EstadoVazio
  /\ idx' = 0
  /\ houve_atualizacao' = FALSE
  /\ producao_atualizada' = FALSE
  /\ UNCHANGED lista_remota

historia == <<pre, entrada, saida, carregado, baixados, gravados, falhos, escritas, salvou,
              treinou, armazenado, ciclos>>

\* ---------------------------------------------------------------- actions
\* Lines 222-242: step 0 (invalidate state.json) and criar_tabela_usuarios,
\* whose sqlite3.connect creates the DB file.
IniciarCiclo ==
  /\ pc = "idle"
  /\ ciclos < MaxCycles
  /\ ciclos' = ciclos + 1
  /\ pre' = Duravel
  /\ stateFile' = IF DeveInvalidar(dbExists, tables) THEN EstadoVazio
                  ELSE stateFile
  /\ dbExists' = TRUE
  /\ pc' = "listing"
  /\ lista_remota' = << >>
  /\ carregado' = EstadoVazio
  /\ baixados' = {}
  /\ gravados' = {}
  /\ falhos' = {}
  /\ escritas' = {}
  /\ salvou' = 0
  /\ treinou' = FALSE
  /\ resultado' = "nenhum"
  /\ UNCHANGED <<tables, model, estado_local, idx, houve_atualizacao,
                 producao_atualizada, armazenado, entrada, saida>>

\* Lines 245-249: carregar_estado_local, then obter_lista_remota returns.
CarregarEListar ==
  /\ pc = "listing"
  /\ ArquivoLegivel(stateFile)
  /\ \E cat \in Catalogos : lista_remota' = cat
  /\ estado_local' = carregar_estado_local(stateFile)
  /\ carregado' = carregar_estado_local(stateFile)
  /\ houve_atualizacao' = FALSE
  /\ producao_atualizada' = FALSE
  /\ idx' = 1
  /\ pc' = "loop"
  /\ UNCHANGED <<durable, pre, entrada, saida, baixados, gravados, falhos, escritas, salvou,
                 treinou, resultado, armazenado, ciclos>>

\* Lines 88-95 and 246: obter_lista_remota raises (request error, HTTP
\* status, no table); nothing catches it, the cycle ends.
ListaFalha ==
  /\ pc = "listing"
  /\ FimDoCiclo("abortado_lista")
  /\ UNCHANGED <<durable, historia>>

NoLaco == pc = "loop" /\ idx <= Len(lista_remota)
Atual == lista_remota[idx]

\* Lines 252-256: the remote string does not parse; log and continue.
PularDataInvalida ==
  /\ NoLaco
  /\ ~ParseOk(Atual.last_mod)
  /\ idx' = idx + 1
  /\ UNCHANGED <<durable, pc, estado_local, lista_remota, houve_atualizacao,
                 producao_atualizada, historia, resultado>>

\* Lines 273-294, else branch: the entry is not changed.
SemMudanca ==
  /\ NoLaco
  /\ ParseOk(Atual.last_mod)
  /\ ~Mudou(estado_local, Atual.nome, Atual.last_mod)
  /\ idx' = idx + 1
  /\ UNCHANGED <<durable, pc, estado_local, lista_remota, houve_atualizacao,
                 producao_atualizada, historia, resultado>>

\* Lines 260-266 and 281-287: baixar_arquivo_csv raises; log and continue.
BaixarFalha ==
  /\ NoLaco
  /\ ParseOk(Atual.last_mod)
  /\ Mudou(estado_local, Atual.nome, Atual.last_mod)
  /\ baixados' = baixados \cup {Atual.nome}
  /\ falhos' = falhos \cup {Atual.nome}
  /\ idx' = idx + 1
  /\ UNCHANGED <<durable, pc, estado_local, lista_remota, houve_atualizacao,
                 producao_atualizada, pre, entrada, saida, carregado, gravados, escritas,
                 salvou, treinou, resultado, armazenado, ciclos>>

\* Lines 260-263 and 281-284: the download succeeds and the local dict takes
\* the remote string at once, before popular_sqlite is called.
BaixarOk ==
  /\ NoLaco
  /\ ParseOk(Atual.last_mod)
  /\ Mudou(estado_local, Atual.nome, Atual.last_mod)
  /\ baixados' = baixados \cup {Atual.nome}
  /\ estado_local' = Registrar(estado_local, Atual.nome, Atual.last_mod)
  /\ pc' = "store"
  /\ UNCHANGED <<durable, lista_remota, idx, houve_atualizacao,
                 producao_atualizada, pre, entrada, saida, carregado, gravados, falhos,
                 escritas, salvou, treinou, resultado, armazenado, ciclos>>

\* Lines 269-271 and 290-292: popular_sqlite returned (it returns None
\* whatever happened inside); the flags are set and the loop goes on.
RetornoPopular ==
  /\ producao_atualizada' =
       (producao_atualizada \/ ComecaComProducao(Atual.nome))
  /\ houve_atualizacao' = TRUE
  /\ idx' = idx + 1
  /\ pc' = "loop"
  /\ UNCHANGED <<estado_local, lista_remota, resultado>>

\* Lines 318-324: ler_csv_embrapa raises with both delimiters; popular_sqlite
\* logs and returns.
PopularLeituraFalha ==
  /\ pc = "store"
  /\ falhos' = falhos \cup {Atual.nome}
  /\ RetornoPopular
  /\ UNCHANGED <<durable, pre, entrada, saida, carregado, baixados, gravados, escritas,
                 salvou, treinou, armazenado, ciclos>>

\* Lines 349-352: a 'producao' file without year columns; popular_sqlite logs
\* and returns without writing.
PopularSemColunasAno ==
  /\ pc = "store"
  /\ ComecaComProducao(Atual.nome)
  /\ falhos' = falhos \cup {Atual.nome}
  /\ RetornoPopular
  /\ UNCHANGED <<durable, pre, entrada, saida, carregado, baixados, gravados, escritas,
                 salvou, treinou, armazenado, ciclos>>

\* Lines 327-330 and 354-361 are outside every try: astype(int) on a year
\* column holding a non-finite number, or melt on a table that already has a
\* column named 'Quantidade', raises; the exception leaves popular_sqlite and
\* the loop of the caller (lines 268, 289), so the cycle ends there.
PopularNormalizacaoLevanta ==
  /\ pc = "store"
  /\ falhos' = falhos \cup {Atual.nome}
  /\ FimDoCiclo("abortado_entrada")
  /\ UNCHANGED <<durable, pre, entrada, saida, carregado, baixados, gravados, escritas,
                 salvou, treinou, armazenado, ciclos>>

\* Lines 365-372: sqlite3.connect raises before base_name is bound (line
\* 367); the handler's f-string reads base_name, which raises
\* UnboundLocalError out of popular_sqlite and out of the cycle.
PopularConnectFalha ==
  /\ pc = "store"
  /\ falhos' = falhos \cup {Atual.nome}
  /\ FimDoCiclo("abortado_entrada")
  /\ UNCHANGED <<durable, pre, entrada, saida, carregado, baixados, gravados, escritas,
                 salvou, treinou, armazenado, ciclos>>

\* What a to_sql(if_exists="replace") that raises can leave behind: the code
\* opens no transaction around the replace and writes no temporary table, so
\* the table is as before (the failure came first), dropped, or re-created
\* without its rows.
RestosDeGravacao(anterior) == {anterior, TabAusente, TabVazia}

\* Lines 365-372: to_sql raises; the handler logs and popular_sqlite returns.
PopularGravacaoFalha ==
  /\ pc = "store"
  /\ \E resto \in RestosDeGravacao(tables[BaseName(Atual.nome)]) :
       tables' = [tables EXCEPT ![BaseName(Atual.nome)] = resto]
  /\ escritas' = escritas \cup {BaseName(Atual.nome)}
  /\ falhos' = falhos \cup {Atual.nome}
  /\ RetornoPopular
  /\ UNCHANGED <<stateFile, dbExists, model, pre, entrada, saida, carregado, baixados,
                 gravados, salvou, treinou, armazenado, ciclos>>

\* Lines 312-370: the file is read, normalized and written; the table holds
\* the snapshot of the version that was downloaded.
PopularOk ==
  /\ pc = "store"
  /\ tables' = [tables EXCEPT ![BaseName(Atual.nome)] =
                  TabLinhas(parse_datetime(Atual.last_mod))]
  /\ escritas' = escritas \cup {BaseName(Atual.nome)}
  /\ gravados' = gravados \cup {Atual.nome}
  /\ armazenado' = [armazenado EXCEPT ![Atual.nome] =
                      Max(@, parse_datetime(Atual.last_mod))]
  /\ RetornoPopular
  /\ UNCHANGED <<stateFile, dbExists, model, pre, entrada, saida, carregado, baixados,
                 falhos, salvou, treinou, ciclos>>

FimDoLacoCedo == pc = "loop"

\* Line 251: the for loop has gone through every entry of the listing.
FimDoLaco == pc = "loop" /\ idx > Len(lista_remota)

\* Lines 296-298: salvar_estado_local(estado_local); the trainer follows
\* when producao_atualizada.
SalvarEstado ==
  /\ FimDoLaco
  /\ DeveSalvar(houve_atualizacao)
  /\ stateFile' = estado_local
  /\ salvou' = salvou + 1
  /\ IF DeveTreinar(producao_atualizada)
     THEN /\ pc' = "train"
          /\ UNCHANGED <<locals, resultado>>
     ELSE FimDoCiclo("completo")
  /\ UNCHANGED <<dbExists, tables, model, pre, entrada, saida, carregado, baixados, gravados,
                 falhos, escritas, treinou, armazenado, ciclos>>

\* Lines 303-304: nothing was updated.
NenhumaAtualizacao ==
  /\ FimDoLaco
  /\ ~DeveSalvar(houve_atualizacao)
  /\ FimDoCiclo("completo")
  /\ UNCHANGED <<durable, historia>>

\* Lines 189-203: the trainer finds no table 'producao', or no rows in it,
\* and returns.
TreinoPula ==
  /\ pc = "train"
  /\ tables["producao"].kind \in {"absent", "empty"}
  /\ treinou' = TRUE
  /\ FimDoCiclo("completo")
  /\ UNCHANGED <<durable, pre, entrada, saida, carregado, baixados, gravados, falhos,
                 escritas, salvou, armazenado, ciclos>>

\* Lines 205-212 and 299-302: aggregation or Prophet.fit raises (too few
\* rows among them); the caller logs the exception, no file is opened.
TreinoFalha ==
  /\ pc = "train"
  /\ tables["producao"].kind = "rows"
  /\ treinou' = TRUE
  /\ FimDoCiclo("completo")
  /\ UNCHANGED <<durable, pre, entrada, saida, carregado, baixados, gravados, falhos,
                 escritas, salvou, armazenado, ciclos>>

\* Lines 214-216: open(..., "wb") truncates the artifact and pickle.dump
\* raises; the caller logs the exception.
TreinoDumpFalha ==
  /\ pc = "train"
  /\ tables["producao"].kind = "rows"
  /\ treinou' = TRUE
  /\ model' = ModeloCorrupto
  /\ FimDoCiclo("completo")
  /\ UNCHANGED <<stateFile, dbExists, tables, pre, entrada, saida, carregado, baixados,
                 gravados, falhos, escritas, salvou, armazenado, ciclos>>

\* Lines 198-218: the model is fitted on the rows of 'producao' and dumped.
TreinoOk ==
  /\ pc = "train"
  /\ tables["producao"].kind = "rows"
  /\ treinou' = TRUE
  /\ model' = ModeloDe(tables["producao"].version)
  /\ FimDoCiclo("completo")
  /\ UNCHANGED <<stateFile, dbExists, tables, pre, entrada, saida, carregado, baixados,
                 gravados, falhos, escritas, salvou, armazenado, ciclos>>

Next ==
  \/ IniciarCiclo
  \/ CarregarEListar
  \/ ListaFalha
  \/ PularDataInvalida
  \/ SemMudanca
  \/ BaixarFalha
  \/ BaixarOk
  \/ PopularLeituraFalha
  \/ PopularSemColunasAno
  \/ PopularNormalizacaoLevanta
  \/ PopularConnectFalha
  \/ PopularGravacaoFalha
  \/ PopularOk
  \/ SalvarEstado
  \/ NenhumaAtualizacao
  \/ TreinoPula
  \/ TreinoFalha
  \/ TreinoDumpFalha
  \/ TreinoOk

Spec == Init /\ [][Next]_vars

TypeOK ==
  /\ pc \in {"idle", "listing", "loop", "store", "train"}
  /\ stateFile \in [Names -> TsOk \cup {TsNone}]
  /\ dbExists \in BOOLEAN
  /\ salvou \in 0..1


\* ================================================================ claims
CicloTerminou == pc = "idle" /\ resultado # "nenhum"
CicloCompleto == pc = "idle" /\ resultado = "completo"
ListaAbortou  == pc = "idle" /\ resultado = "abortado_lista"

\* Every entry state.json had when the cycle started had its table stored
\* at the recorded instant.
InicioConsistente ==
  \A n \in Names :
    TemEntrada(pre.stateFile, n) =>
      pre.tables[BaseName(n)] = TabLinhas(pre.stateFile[n].time)

\* The store had no table 'producao' (or no file) when the cycle started.
SemProducaoNoInicio ==
  ~pre.dbExists \/ pre.tables["producao"].kind = "absent"

\* C1: in every cycle, no name is fetched whose remote timestamp is the
\* instant recorded for it in the SyncState the cycle loaded.
C1_UnchangedNeverFetched ==
  \A n \in baixados :
    ~ /\ TemEntrada(carregado, n)
      /\ RemotoDe(lista_remota, n).time = carregado[n].time

\* C1 witness: a completed cycle whose catalog listed a name at its recorded
\* instant, and that name was not fetched.
C1_Witness ==
  /\ CicloCompleto
  /\ \E n \in NomesDe(lista_remota) :
       /\ TemEntrada(carregado, n)
       /\ RemotoDe(lista_remota, n).time = carregado[n].time
       /\ n \notin baixados
       /\ baixados # {}

\* C2 (as claimed): after a cycle, every entry it fetched, parsed,
\* normalized and stored has its remote timestamp in state.json.
C2_StoredEntriesRecorded ==
  CicloTerminou =>
    \A n \in gravados : stateFile[n] = RemotoDe(lista_remota, n)

\* C3 (as claimed): after a cycle, an entry whose processing failed has no
\* timestamp in state.json or the one it had before the cycle.
C3_FailedEntryNotAdvanced ==
  CicloTerminou =>
    \A n \in falhos :
      stateFile[n] = TsNone \/ stateFile[n] = pre.stateFile[n]

\* C4 (as claimed): a cycle in which an entry failed still completes, and
\* every changed entry of its catalog was attempted.
C4_FailureNeverAborts ==
  (CicloTerminou /\ falhos # {}) =>
    /\ resultado = "completo"
    /\ \A n \in NomesDe(lista_remota) :
         (/\ ParseOk(RemotoDe(lista_remota, n))
          /\ \/ ~TemEntrada(carregado, n)
             \/ RemotoDe(lista_remota, n).time > carregado[n].time)
         => n \in baixados

\* C5 (as claimed): when the listing fails, state.json and the tables of
\* the store are exactly as before the cycle and nothing was fetched,
\* written or trained (from a start in which state.json matched the store).
C5_ListingFailureNoOp ==
  (ListaAbortou /\ InicioConsistente) =>
    /\ stateFile = pre.stateFile
    /\ tables = pre.tables
    /\ model = pre.model
    /\ baixados = {} /\ escritas = {} /\ salvou = 0 /\ ~treinou

\* C5 (amended): when the listing fails, the data tables and the model are
\* as before the cycle, nothing was fetched, written, saved or trained, and
\* state.json is as before unless the store had no 'producao' table at the
\* start, in which case state.json is gone.
C5_ListingFailureAmended ==
  ListaAbortou =>
    /\ tables = pre.tables
    /\ model = pre.model
    /\ baixados = {} /\ escritas = {} /\ salvou = 0 /\ ~treinou
    /\ stateFile = IF SemProducaoNoInicio THEN EstadoVazio
                   ELSE pre.stateFile

\* C5 witness: the listing failed in a cycle that started with entries in
\* state.json and a table 'producao' in the store.
C5_Witness ==
  /\ ListaAbortou
  /\ pre.stateFile # EstadoVazio
  /\ ~SemProducaoNoInicio
  /\ stateFile = pre.stateFile

\* C6 (as claimed): after a cycle, the trainer was called iff an entry of
\* the 'producao' family was stored in it.
C6_RetrainIffProducaoStored ==
  CicloTerminou =>
    (treinou <=> \E n \in gravados : ComecaComProducao(n))

\* No entry of the catalog is new or strictly newer than recorded.
NenhumaEntradaMudou ==
  \A n \in NomesDe(lista_remota) :
    /\ TemEntrada(carregado, n)
    /\ ~ /\ ParseOk(RemotoDe(lista_remota, n))
         /\ RemotoDe(lista_remota, n).time > carregado[n].time

\* No entry of the catalog is one the loop would attempt.
NenhumaEntradaTentada ==
  \A n \in NomesDe(lista_remota) :
    \/ ~ParseOk(RemotoDe(lista_remota, n))
    \/ /\ TemEntrada(carregado, n)
       /\ RemotoDe(lista_remota, n).time <= carregado[n].time

\* C7 (as claimed): a completed cycle with no changed entry leaves
\* state.json, the tables and the model as they were (from a start in which
\* state.json matched the store).
C7_NoChangeNoEffect ==
  (CicloCompleto /\ NenhumaEntradaMudou /\ InicioConsistente) =>
    /\ stateFile = pre.stateFile
    /\ tables = pre.tables
    /\ model = pre.model

\* C7 (amended): a completed cycle with no changed entry leaves the tables
\* and the model as they were, saves nothing, writes no table and trains
\* nothing; state.json is as before unless the store had no 'producao' table
\* at the start, in which case state.json is gone.
C7_NoChangeAmended ==
  (CicloCompleto /\ NenhumaEntradaTentada) =>
    /\ tables = pre.tables
    /\ model = pre.model
    /\ baixados = {} /\ escritas = {} /\ salvou = 0 /\ ~treinou
    /\ stateFile = IF SemProducaoNoInicio THEN EstadoVazio
                   ELSE pre.stateFile

\* C7 witness: a completed cycle over a catalog of two entries, both listed
\* at their recorded timestamps.
C7_Witness ==
  /\ CicloCompleto
  /\ Len(lista_remota) = 2
  /\ NenhumaEntradaMudou
  /\ stateFile = pre.stateFile
  /\ stateFile # EstadoVazio

\* C8 (as claimed): after a completed cycle, if state.json records the
\* listed version of Producao.csv, the model was trained from the rows now
\* stored in 'producao'.
C8_ModelReflectsRecordedVersion ==
  CicloCompleto =>
    ((/\ ParseOk(RemotoDe(lista_remota, "Producao.csv"))
      /\ stateFile["Producao.csv"] = RemotoDe(lista_remota, "Producao.csv"))
     => /\ tables["producao"].kind = "rows"
        /\ model = ModeloDe(tables["producao"].version))

\* C9 (as claimed): between cycles, a name has an entry in state.json iff
\* its file was stored at least once, at the recorded instant or later.
C9_EntryIffStored ==
  pc = "idle" =>
    \A n \in Names :
      /\ TemEntrada(stateFile, n) => armazenado[n] >= stateFile[n].time
      /\ armazenado[n] > 0 => TemEntrada(stateFile, n)

\* C10 (as claimed): a step of popular_sqlite in which the entry fails
\* leaves the table of that name exactly as it was.
C10_FailedWriteKeepsTable ==
  [][(pc = "store" /\ Atual.nome \in falhos')
       => tables'[BaseName(Atual.nome)] = tables[BaseName(Atual.nome)]]_vars


\* ============================================ popular_sqlite, step 4 alone
\* Rows a snapshot can hold and snapshots a file version can normalize to.
MaxLinhas == 2
\* Successive stores of the same table.
MaxGravacoes == 3

SeqAte(S, n) == UNION {[1..k -> S] : k \in 0..n}
Snapshots == SeqAte({"a", "b"}, MaxLinhas)

\* DataFrame.to_sql(name, conn, if_exists=...): the rows of the table after
\* the call returns.
ToSql(anterior, df, if_exists) ==
  CASE if_exists = "replace" -> df
    [] if_exists = "append"  -> anterior \o df
    [] OTHER                 -> anterior

\* The same call with if_exists="append".
GravarTabelaAppend(anterior, df) == ToSql(anterior, df, "append")

\* Line 368: df.to_sql(base_name, conn, if_exists="replace", index=False)
GravarTabela(anterior, df) == ToSql(anterior, df, "replace")

InitTabela ==
  /\ InitCiclo
  /\ entrada \in SeqAte(Snapshots, MaxGravacoes)
  /\ saida = [tabela |-> << >>, ultimo |-> << >>, n |-> 0]

\* One successful popular_sqlite of the next version of the file.
GravarSucessivo ==
  /\ entrada # << >>
  /\ saida' = [tabela |-> GravarTabela(saida.tabela, Head(entrada)),
               ultimo |-> Head(entrada),
               n |-> saida.n + 1]
  /\ entrada' = Tail(entrada)
  /\ UNCHANGED cicloVars

NextTabela == GravarSucessivo

SpecTabela == InitTabela /\ [][NextTabela]_vars

\* C11: after any sequence of successful stores of a table, its rows are
\* exactly the rows of the snapshot stored last.
C11_TableIsLastSnapshot ==
  saida.n > 0 => saida.tabela = saida.ultimo

\* C11 witness: a third store, of a snapshot shorter than the rows the two
\* stores before it wrote.
C11_Witness ==
  /\ saida.n = 3
  /\ Len(saida.ultimo) = 1
  /\ saida.tabela = saida.ultimo
  /\ entrada = << >>


\* ======================================= treinar_modelo_forecast_rs alone
\* Distinct years ('Ano') the rows of 'producao' can hold.
MaxPeriodos == 3
\* Rows Prophet.fit needs: with fewer it raises ValueError (line 212).
MinPeriodosFit == 2

TabelasProducao ==
  {[kind |-> "absent", version |-> 0, periodos |-> 0]}
    \cup [kind : {"rows"}, version : 1..MaxTime, periodos : 0..MaxPeriodos]
ModelosExistentes ==
  {ModeloAusente, ModeloCorrupto} \cup {ModeloDe(v) : v \in 1..MaxTime}

\* A trainer that opens the artifact for writing before it fits.
TreinarAbrindoAntes(tab, anterior, dumpOk) ==
  CASE tab.kind = "absent" ->
         [modelo |-> anterior, resultado |-> "sem_tabela"]
    [] tab.kind = "rows" /\ tab.periodos = 0 ->
         [modelo |-> anterior, resultado |-> "vazia"]
    [] tab.kind = "rows" /\ tab.periodos > 0
         /\ tab.periodos < MinPeriodosFit ->
         [modelo |-> ModeloCorrupto, resultado |-> "excecao"]
    [] tab.kind = "rows" /\ tab.periodos >= MinPeriodosFit /\ ~dumpOk ->
         [modelo |-> ModeloCorrupto, resultado |-> "excecao"]
    [] OTHER ->
         [modelo |-> ModeloDe(tab.version), resultado |-> "treinado"]

\* Lines 188-218 with the handler of lines 299-302: no table -> return; no
\* rows -> return; one row per year goes to Prophet.fit, which raises before
\* the artifact is opened; open(..., "wb") and pickle.dump come last.
Treinar(tab, anterior, dumpOk) ==
  CASE tab.kind = "absent" ->
         [modelo |-> anterior, resultado |-> "sem_tabela"]
    [] tab.kind = "rows" /\ tab.periodos = 0 ->
         [modelo |-> anterior, resultado |-> "vazia"]
    [] tab.kind = "rows" /\ tab.periodos > 0
         /\ tab.periodos < MinPeriodosFit ->
         [modelo |-> anterior, resultado |-> "excecao"]
    [] tab.kind = "rows" /\ tab.periodos >= MinPeriodosFit /\ ~dumpOk ->
         [modelo |-> ModeloCorrupto, resultado |-> "excecao"]
    [] OTHER ->
         [modelo |-> ModeloDe(tab.version), resultado |-> "treinado"]

InitTreino ==
  /\ InitCiclo
  /\ entrada \in [tab : TabelasProducao, modelo : ModelosExistentes,
                  dumpOk : BOOLEAN]
  /\ saida = [modelo |-> entrada.modelo, resultado |-> "pendente"]

\* One call of the trainer from line 300.
TreinarUmaVez ==
  /\ saida.resultado = "pendente"
  /\ saida' = Treinar(entrada.tab, entrada.modelo, entrada.dumpOk)
  /\ UNCHANGED <<entrada, cicloVars>>

NextTreino == TreinarUmaVez

SpecTreino == InitTreino /\ [][NextTreino]_vars

\* C12: a retrain on fewer distinct periods than the fit needs produces no
\* model and leaves the artifact that existed exactly as it was.
C12_TooFewPeriodsKeepsModel ==
  (saida.resultado # "pendente" /\ entrada.tab.periodos < MinPeriodosFit) =>
    /\ saida.resultado # "treinado"
    /\ saida.modelo = entrada.modelo

\* C12 witness: the trainer ran on a table with a single period while a
\* trained model existed, and raised.
C12_Witness ==
  /\ saida.resultado = "excecao"
  /\ entrada.tab.kind = "rows"
  /\ entrada.tab.periodos = 1
  /\ entrada.modelo = ModeloDe(1)
  /\ saida.modelo = ModeloDe(1)


\* ================================================ the process is killed
\* Lines 72-76 and 245: json.load raises on a state.json that is not
\* complete JSON; nothing catches it, the cycle ends before the listing.
CarregarFalha ==
  /\ pc = "listing"
  /\ ~ArquivoLegivel(stateFile)
  /\ FimDoCiclo("abortado_carga")
  /\ UNCHANGED <<durable, historia>>

\* The process dies between two statements of the cycle: what is on disk
\* stays, the locals are lost.
Interromper ==
  /\ pc \in {"listing", "loop", "store", "train"}
  /\ FimDoCiclo("interrompido")
  /\ UNCHANGED <<durable, historia>>

\* The process dies inside to_sql (line 368), after the old table was
\* dropped.
InterromperGravacao ==
  /\ pc = "store"
  /\ \E resto \in {TabAusente, TabVazia} :
       tables' = [tables EXCEPT ![BaseName(Atual.nome)] = resto]
  /\ escritas' = escritas \cup {BaseName(Atual.nome)}
  /\ FimDoCiclo("interrompido")
  /\ UNCHANGED <<stateFile, dbExists, model, pre, entrada, saida, carregado,
                 baixados, gravados, falhos, salvou, treinou, armazenado,
                 ciclos>>

\* What salvar_estado_local (lines 78-80) leaves when the process dies in
\* it: open(ARQUIVO_STATE, "w") has truncated the file and json.dump writes
\* it piece by piece, so the file is cut short, or complete if the last
\* piece was out.
RestosDeSalvar(novo) == {EstadoTruncado, novo}

\* The process dies inside salvar_estado_local (line 297).
SalvarInterrompido ==
  /\ FimDoLaco
  /\ DeveSalvar(houve_atualizacao)
  /\ \E resto \in RestosDeSalvar(estado_local) : stateFile' = resto
  /\ salvou' = salvou + 1
  /\ FimDoCiclo("interrompido")
  /\ UNCHANGED <<dbExists, tables, model, pre, entrada, saida, carregado,
                 baixados, gravados, falhos, escritas, treinou, armazenado,
                 ciclos>>

NextCrash ==
  \/ Next
  \/ CarregarFalha
  \/ Interromper
  \/ InterromperGravacao
  \/ SalvarInterrompido

SpecCrash == Init /\ [][NextCrash]_vars

\* C13 (as claimed): when the process dies during salvar_estado_local,
\* state.json holds the complete previous mapping or the complete new one.
C13_SaveIsAtomic ==
  [][(FimDoLaco /\ salvou' = salvou + 1 /\ resultado' = "interrompido")
       => stateFile' \in {stateFile, estado_local}]_vars

\* C15 (as claimed): after the process died in the middle of a cycle in
\* which no entry had failed, state.json is loadable and every entry it
\* holds that the cycle advanced is an entry the cycle fetched, parsed,
\* normalized and stored.
C15_RestartIsSafe ==
  (pc = "idle" /\ resultado = "interrompido" /\ falhos = {}) =>
    /\ ArquivoLegivel(stateFile)
    /\ \A n \in Names :
         (TemEntrada(stateFile, n) /\ stateFile[n] # pre.stateFile[n])
           => n \in gravados


\* C14 (as claimed): a cycle that found no DB file or no table 'producao'
\* loads an empty SyncState, and every entry of its catalog whose timestamp
\* parses is fetched in that cycle.
C14_InvalidationRefetchesAll ==
  (CicloTerminou /\ resultado # "abortado_lista" /\ SemProducaoNoInicio) =>
    /\ carregado = EstadoVazio
    /\ \A n \in NomesDe(lista_remota) :
         ParseOk(RemotoDe(lista_remota, n)) => n \in baixados

\* C16 (as claimed): after a cycle, every entry of the catalog that is new or
\* strictly newer than recorded was fetched, and no entry listed at the
\* recorded instant or an older one was.
C16_ChangedIffFetched ==
  (CicloTerminou /\ resultado # "abortado_lista") =>
    \A n \in NomesDe(lista_remota) :
      /\ (/\ ParseOk(RemotoDe(lista_remota, n))
          /\ \/ ~TemEntrada(carregado, n)
             \/ RemotoDe(lista_remota, n).time > carregado[n].time)
         => n \in baixados
      /\ (/\ TemEntrada(carregado, n)
          /\ RemotoDe(lista_remota, n).time <= carregado[n].time)
         => n \notin baixados


\* ================================================ obter_lista_remota alone
\* Rows (<tr>) of the table of the listing page.
MaxLinhasLista == 3

\* A row: tipo "csv" is a row with three cells and a link to a name ending
\* in .csv; the other rows are dropped at lines 100-107 (fewer than three
\* cells, no link, another extension).
LinhasRemotas ==
  [tipo : {"csv"}, nome : Names, last_mod : TsRemotos]
    \cup [tipo : {"curta", "sem_link", "nao_csv"}, nome : {"Producao.csv"},
          last_mod : {TsBad}]

\* Lines 98-109 for one row: lista[nome] = last_mod.  A key already in the
\* dict keeps its place and takes the new value.
AcrescentarLinha(lista, linha) ==
  IF linha.tipo # "csv" THEN lista
  ELSE IF linha.nome \in NomesDe(lista)
       THEN [i \in 1..Len(lista) |->
               IF lista[i].nome = linha.nome
               THEN [nome |-> linha.nome, last_mod |-> linha.last_mod]
               ELSE lista[i]]
       ELSE Append(lista, [nome |-> linha.nome, last_mod |-> linha.last_mod])

InitLista ==
  /\ InitCiclo
  /\ entrada \in SeqAte(LinhasRemotas, MaxLinhasLista)
  /\ saida = [lista |-> << >>, lidas |-> 0]

\* One turn of the loop of line 98.
LerLinha ==
  /\ saida.lidas < Len(entrada)
  /\ saida' = [lista |-> AcrescentarLinha(saida.lista,
                                          entrada[saida.lidas + 1]),
               lidas |-> saida.lidas + 1]
  /\ UNCHANGED <<entrada, cicloVars>>

NextLista == LerLinha

SpecLista == InitLista /\ [][NextLista]_vars

\* C17 (as claimed): the dict returned holds each name once, and for a name
\* listed in several rows it holds the latest of their timestamps.
C17_LatestTimestampWins ==
  saida.lidas = Len(entrada) =>
    /\ NomesDistintos(saida.lista)
    /\ \A i \in 1..Len(entrada) :
         (entrada[i].tipo = "csv" /\ ParseOk(entrada[i].last_mod)
            /\ ParseOk(RemotoDe(saida.lista, entrada[i].nome)))
         => RemotoDe(saida.lista, entrada[i].nome).time
              >= entrada[i].last_mod.time


\* ============================ popular_sqlite, steps 2 and 3, on Producao.csv
\* Rows of the frame read from the file.
MaxLinhasDf == 3

\* Column layouts of the frames checked.
Layouts ==
  {<<"id", "2019", "2020">>, <<"UF", "2019">>, <<"id", "Estado", "2019">>,
   <<"id", "UF">>}

\* str.strip, str.lower and str.upper on the strings that occur.
Strip(c) == CASE c = " ID " -> "ID" [] c = " " -> "" [] OTHER -> c

Lower(c) ==
  CASE c = "UF" -> "uf" [] c = "Estado" -> "estado" [] c = "ID" -> "id"
    [] c = "Produto" -> "produto" [] OTHER -> c

Upper(v) == CASE v = "rs" -> "RS" [] v = "sp" -> "SP" [] OTHER -> v

\* re.fullmatch(r"\d{4}", str(c).strip())
IsAno(c) == Strip(c) \in {"2019", "2020"}

\* int(c) of a year column name (line 361).
AnoDe(c) == CASE c = "2019" -> 2019 [] c = "2020" -> 2020

\* Cells of a column as read from the file.
CelulasDe(c) ==
  IF IsAno(c) THEN {"100", "200", "x", "inf"}
  ELSE IF Lower(Strip(c)) \in {"uf", "estado"} THEN {"rs", "RS", "sp"}
  ELSE {"42"}

Celulas ==
  UNION {UNION {CelulasDe(l[i]) : i \in 1..Len(l)} : l \in Layouts}

LinhasDe(l) ==
  {r \in [1..Len(l) -> Celulas] : \A i \in 1..Len(l) : r[i] \in CelulasDe(l[i])}

DataFrames ==
  UNION {[cols : {l}, rows : SeqAte(LinhasDe(l), MaxLinhasDf)] : l \in Layouts}

\* pd.to_numeric(errors="coerce").fillna(0) of a cell: text that is not a
\* number becomes 0; "inf" stays infinite and is handled by NaoFinito.
ToNumeric(v) ==
  CASE v = "100" -> 100 [] v = "200" -> 200 [] v = "42" -> 42 [] OTHER -> 0

\* astype(int) raises on a non-finite value.
NaoFinito(v) == v = "inf"

\* Indices of the year columns, in column order (lines 327 and 349).
RECURSIVE ColAnosAte(_, _)
ColAnosAte(cols, k) ==
  IF k = 0 THEN << >>
  ELSE IF IsAno(cols[k]) THEN Append(ColAnosAte(cols, k - 1), k)
       ELSE ColAnosAte(cols, k - 1)

ColAnos(cols) == ColAnosAte(cols, Len(cols))

\* Lines 336-340: the first column named uf or estado; 0 for None.
ColunaEstado(cols) ==
  LET achadas == {i \in 1..Len(cols) : Lower(Strip(cols[i])) \in {"uf", "estado"}}
  IN IF achadas = {} THEN 0
     ELSE CHOOSE i \in achadas : \A j \in achadas : i <= j

\* Lines 328-331: the year columns become integers.
Coagir(df) ==
  [i \in 1..Len(df.rows) |->
     [j \in 1..Len(df.cols) |->
        IF IsAno(df.cols[j]) THEN ToNumeric(df.rows[i][j]) ELSE df.rows[i][j]]]

CoagirLevanta(df) ==
  \E i \in 1..Len(df.rows) : \E j \in 1..Len(df.cols) :
    IsAno(df.cols[j]) /\ NaoFinito(df.rows[i][j])

FiltrarRSExato(rows, state_col) ==
  LET EhRS(r) == r[state_col] = "RS" IN SelectSeq(rows, EhRS)

\* Line 345: df[df[state_col].astype(str).str.upper() == "RS"]
FiltrarRS(rows, state_col) ==
  LET EhRS(r) == Upper(r[state_col]) = "RS" IN SelectSeq(rows, EhRS)

\* Lines 354-362: melt with id_vars = [state_col] if state_col else [].
\* The frame returned has one block of rows per year column.
Melt(cols, rows, state_col) ==
  LET anos == ColAnos(cols)
      n    == Len(rows)
  IN [k \in 1..(n * Len(anos)) |->
        LET j == ((k - 1) \div n) + 1
            i == ((k - 1) % n) + 1
        IN [ids |-> IF state_col # 0
                    THEN <<[col |-> cols[state_col], val |-> rows[i][state_col]]>>
                    ELSE << >>,
            Ano |-> AnoDe(cols[anos[j]]),
            Quantidade |-> rows[i][anos[j]]]]

\* Lines 327-362 for a file whose name starts with "producao".
NormalizarProducao(df) ==
  LET state_col == ColunaEstado(df.cols)
      filtradas == IF state_col # 0 THEN FiltrarRS(Coagir(df), state_col)
                   ELSE Coagir(df)
  IN IF CoagirLevanta(df)
     THEN [feito |-> TRUE, resultado |-> "levanta", filtradas |-> << >>,
           linhas |-> << >>]
     ELSE IF ColAnos(df.cols) = << >>
     THEN [feito |-> TRUE, resultado |-> "sem_anos", filtradas |-> filtradas,
           linhas |-> << >>]
     ELSE [feito |-> TRUE, resultado |-> "ok", filtradas |-> filtradas,
           linhas |-> Melt(df.cols, filtradas, state_col)]

InitNormaliza ==
  /\ InitCiclo
  /\ entrada \in DataFrames
  /\ saida = [feito |-> FALSE, resultado |-> "nenhum", filtradas |-> << >>,
              linhas |-> << >>]

NormalizarUmaVez ==
  /\ ~saida.feito
  /\ saida' = NormalizarProducao(entrada)
  /\ UNCHANGED <<entrada, cicloVars>>

NextNormaliza == NormalizarUmaVez

SpecNormaliza == InitNormaliza /\ [][NextNormaliza]_vars

\* C18 (as claimed): the long frame has one row per (row, year column) and
\* every row carries all the non-year columns of the wide frame.
C18_ReshapeKeepsIdColumns ==
  (saida.feito /\ saida.resultado = "ok") =>
    LET naoAnos == {j \in 1..Len(entrada.cols) : ~IsAno(entrada.cols[j])}
    IN /\ Len(saida.linhas)
            = Len(saida.filtradas) * Len(ColAnos(entrada.cols))
       /\ \A k \in 1..Len(saida.linhas) :
            {id.col : id \in {saida.linhas[k].ids[x] :
                                x \in 1..Len(saida.linhas[k].ids)}}
              = {entrada.cols[j] : j \in naoAnos}

\* C19: when the frame has a state column, the rows kept are exactly those
\* whose state cell is "RS" in any letter case, in their order.
C19_FilterCaseInsensitive ==
  (saida.feito /\ saida.resultado # "levanta"
     /\ ColunaEstado(entrada.cols) # 0) =>
    LET uf == ColunaEstado(entrada.cols)
        Mantida(r) == r[uf] \in {"rs", "RS"}
    IN saida.filtradas = SelectSeq(Coagir(entrada), Mantida)

C19_Witness ==
  /\ saida.feito /\ saida.resultado = "ok"
  /\ entrada.cols = <<"UF", "2019">>
  /\ Len(entrada.rows) = 3
  /\ entrada.rows[1][1] = "rs" /\ entrada.rows[2][1] = "RS"
  /\ entrada.rows[3][1] = "sp"
  /\ Len(saida.filtradas) = 2
  /\ saida.filtradas[1][1] = "rs" /\ saida.filtradas[2][1] = "RS"


\* C20: salvar_estado_local is called at most once in a cycle, and only when
\* the loop has gone through every entry of the listing; between the load
\* and that call the file is not written (step 0, before the load, is the
\* only other place where the file changes: it may remove it).
C20_SaveOnceAfterLoop ==
  [][/\ (salvou' = salvou + 1)
          => (pc = "loop" /\ idx > Len(lista_remota) /\ salvou = 0)
     /\ (stateFile' # stateFile) => (pc = "idle" \/ salvou' = salvou + 1)]_vars

C20_Witness ==
  /\ CicloCompleto
  /\ salvou = 1
  /\ baixados = Names
  /\ gravados = Names
  /\ \A n \in Names : TemEntrada(stateFile, n)
  /\ stateFile # pre.stateFile


\* C21: the trainer is entered only from the end of the loop, when every
\* entry of the listing has been gone through; it is called and the model
\* file changes only at that position; and no store is started in a cycle
\* once its trainer has been called.
C21_TrainerAfterAllEntries ==
  [][/\ (pc' = "train" /\ pc # "train")
          => (pc = "loop" /\ idx > Len(lista_remota))
     /\ ((treinou' /\ ~treinou) \/ model' # model) => pc = "train"
     /\ (pc' = "store") => ~treinou']_vars

C21_Witness ==
  /\ pc = "train"
  /\ Len(lista_remota) = 2
  /\ idx > Len(lista_remota)
  /\ lista_remota[1].nome = "Producao.csv"
  /\ gravados = Names
  /\ ~treinou


\* ===================================== detectar_indice_header on its own
\* Lines of the file read.
MaxLinhasArq == 3

\* A line is a sequence of pieces: texts with a delimiter between them.
\* None of the lines is blank.
LinhasArq ==
  {<<"Embrapa">>, <<" ID ", ";", "2019">>, <<"uf", ";", "x">>,
   <<"Produto", ",", "2019">>, <<"x", ";", "id">>, <<" ", ";", " ">>,
   <<" ">>}

Separadores == {";", ","}

\* linha.split(sep): the tokens, each the pieces between two separators.
RECURSIVE Split(_, _)
Split(linha, sep) ==
  IF \A i \in 1..Len(linha) : linha[i] # sep THEN <<linha>>
  ELSE LET k == CHOOSE i \in 1..Len(linha) :
                  linha[i] = sep /\ \A j \in 1..(i - 1) : linha[j] # sep
       IN <<SubSeq(linha, 1, k - 1)>>
            \o Split(SubSeq(linha, k + 1, Len(linha)), sep)

\* Line 143.
Sentinelas == {"uf", "estado", "id", "produto", "controle"}

EhSentinelaExato(tok) == Len(tok) = 1 /\ tok[1] \in Sentinelas

\* t.strip().lower() in (...): a token of several pieces holds a comma and
\* is none of the words, as is the empty token.
EhSentinela(tok) == Len(tok) = 1 /\ Lower(Strip(tok[1])) \in Sentinelas

\* Lines 140-144: enumerate the lines from i (1-based here), return the
\* 0-based index of the first whose first token is a sentinel, else 0.
RECURSIVE DetectarDesde(_, _)
DetectarDesde(linhas, i) ==
  IF i > Len(linhas) THEN 0
  ELSE IF EhSentinela(Split(linhas[i], ";")[1]) THEN i - 1
       ELSE DetectarDesde(linhas, i + 1)

detectar_indice_header(linhas) == DetectarDesde(linhas, 1)

Textos == SeqAte(LinhasArq, MaxLinhasArq)

InitHeader ==
  /\ InitCiclo
  /\ entrada \in [linhas : Textos, levanta : {{}}]
  /\ saida = [chamadas |-> 0, primeiro |-> 0, ultimo |-> 0]

\* The function is called on the file; the first and the latest result
\* are kept.
Detectar ==
  /\ saida.chamadas < 2
  /\ LET r == detectar_indice_header(entrada.linhas)
     IN saida' = [chamadas |-> saida.chamadas + 1,
                  primeiro |-> IF saida.chamadas = 0 THEN r
                               ELSE saida.primeiro,
                  ultimo |-> r]
  /\ UNCHANGED <<entrada, cicloVars>>

NextHeader == Detectar

SpecHeader == InitHeader /\ [][NextHeader]_vars

Arquivos == [linhas : Textos, levanta : SUBSET Separadores]

\* all(str(col).strip() == "" for col in df.columns), lines 161 and 176.
NomesEmBranco(cols) ==
  \A c \in 1..Len(cols) : \A p \in 1..Len(cols[c]) : Strip(cols[c][p]) = ""

\* pd.read_csv(caminho_csv, sep=sep, header=header_row) followed by the
\* test of the column names: the names are the tokens of the header line,
\* an empty one renamed by pandas; an empty file raises.
Tentativa(arq, sep, header_row) ==
  IF header_row >= Len(arq.linhas) \/ sep \in arq.levanta
  THEN [ok |-> FALSE, cols |-> << >>]
  ELSE LET toks == Split(arq.linhas[header_row + 1], sep)
           cols == [c \in 1..Len(toks) |->
                      IF toks[c] = << >> THEN <<"Unnamed">> ELSE toks[c]]
       IN IF NomesEmBranco(cols) THEN [ok |-> FALSE, cols |-> << >>]
          ELSE [ok |-> TRUE, cols |-> cols]

ler_csv_embrapa_virgula_antes(arq) ==
  LET header_row == detectar_indice_header(arq.linhas)
      t1 == Tentativa(arq, ",", header_row)
      t2 == Tentativa(arq, ";", header_row)
      p1 == [sep |-> ",", header |-> header_row]
      p2 == [sep |-> ";", header |-> header_row]
  IN IF t1.ok
     THEN [feito |-> TRUE, resultado |-> "ok", sep |-> ",",
           cols |-> t1.cols, tentativas |-> <<p1>>]
     ELSE IF t2.ok
     THEN [feito |-> TRUE, resultado |-> "ok", sep |-> ";",
           cols |-> t2.cols, tentativas |-> <<p1, p2>>]
     ELSE [feito |-> TRUE, resultado |-> "levanta", sep |-> "nenhum",
           cols |-> << >>, tentativas |-> <<p1, p2>>]

\* Lines 151-181: ';' first, then ',' with the same header_row; the
\* exception of the second attempt is raised again.
ler_csv_embrapa(arq) ==
  LET header_row == detectar_indice_header(arq.linhas)
      t1 == Tentativa(arq, ";", header_row)
      t2 == Tentativa(arq, ",", header_row)
      p1 == [sep |-> ";", header |-> header_row]
      p2 == [sep |-> ",", header |-> header_row]
  IN IF t1.ok
     THEN [feito |-> TRUE, resultado |-> "ok", sep |-> ";",
           cols |-> t1.cols, tentativas |-> <<p1>>]
     ELSE IF t2.ok
     THEN [feito |-> TRUE, resultado |-> "ok", sep |-> ",",
           cols |-> t2.cols, tentativas |-> <<p1, p2>>]
     ELSE [feito |-> TRUE, resultado |-> "levanta", sep |-> "nenhum",
           cols |-> << >>, tentativas |-> <<p1, p2>>]

InitLer ==
  /\ InitCiclo
  /\ entrada \in Arquivos
  /\ saida = [feito |-> FALSE, resultado |-> "nenhum", sep |-> "nenhum",
              cols |-> << >>, tentativas |-> << >>]

LerUmaVez ==
  /\ ~saida.feito
  /\ saida' = ler_csv_embrapa(entrada)
  /\ UNCHANGED <<entrada, cicloVars>>

NextLer == LerUmaVez

SpecLer == InitLer /\ [][NextLer]_vars

\* What one separator gives at the detected header row: the read does not
\* raise and some column name is not blank.
SepServe(sep) ==
  LET h == detectar_indice_header(entrada.linhas)
  IN /\ h < Len(entrada.linhas)
     /\ sep \notin entrada.levanta
     /\ \E tok \in {Split(entrada.linhas[h + 1], sep)[c] :
                      c \in 1..Len(Split(entrada.linhas[h + 1], sep))} :
          tok = << >> \/ \E p \in 1..Len(tok) : tok[p] # " "

\* C23: the semicolon attempt comes first; the comma attempt is made, at the
\* same header row, exactly when the semicolon attempt raises or gives only
\* blank names; the call fails exactly when both fail; a semicolon parse
\* that succeeded is the one returned.
C23_DelimiterLadder ==
  saida.feito =>
    LET h == detectar_indice_header(entrada.linhas)
    IN /\ saida.tentativas[1] = [sep |-> ";", header |-> h]
       /\ SepServe(";") =>
            /\ Len(saida.tentativas) = 1
            /\ saida.resultado = "ok" /\ saida.sep = ";"
       /\ ~SepServe(";") =>
            /\ Len(saida.tentativas) = 2
            /\ saida.tentativas[2] = [sep |-> ",", header |-> h]
       /\ (saida.resultado = "levanta")
            <=> (~SepServe(";") /\ ~SepServe(","))
       /\ (~SepServe(";") /\ SepServe(",")) =>
            (saida.resultado = "ok" /\ saida.sep = ",")

C23_Witness ==
  /\ saida.feito
  /\ entrada.linhas = <<<<"Embrapa">>, <<"Produto", ",", "2019">>>>
  /\ entrada.levanta = {";"}
  /\ saida.resultado = "ok"
  /\ saida.sep = ","
  /\ Len(saida.tentativas) = 2


\* ======================================= table names of a whole catalog
\* Entries of the catalog.
MaxCatalogo == 3

\* hrefs the listing can show: nome.lower().endswith(".csv") (line 106)
\* accepts every letter case.
NomesRemotos == Names \cup {"PRODUCAO.CSV", "comercio.csv"}

\* Keys of the dict returned by obter_lista_remota, in row order.
CatalogosDeNomes ==
  {s \in SeqAte(NomesRemotos, MaxCatalogo) :
     \A i, j \in 1..Len(s) : i # j => s[i] # s[j]}

InitTabelas ==
  /\ InitCiclo
  /\ entrada \in CatalogosDeNomes
  /\ saida = [dono |-> [t \in TableNames |-> "nenhum"], n |-> 0]

\* Lines 366-368 for the next entry of the catalog: its frame replaces the
\* table named BaseName(nome).
ArmazenarEntrada ==
  /\ saida.n < Len(entrada)
  /\ LET nome == entrada[saida.n + 1]
     IN saida' = [dono |-> [saida.dono EXCEPT ![BaseName(nome)] = nome],
                  n |-> saida.n + 1]
  /\ UNCHANGED <<entrada, cicloVars>>

NextTabelas == ArmazenarEntrada

SpecTabelas == InitTabelas /\ [][NextTabelas]_vars

\* C24 (as claimed): the names of a catalog have pairwise different table
\* names, and once all are stored the table of every entry holds the frame
\* of that entry.
C24_OneTablePerFile ==
  saida.n = Len(entrada) =>
    /\ \A i, j \in 1..Len(entrada) :
         i # j => BaseName(entrada[i]) # BaseName(entrada[j])
    /\ \A i \in 1..saida.n : saida.dono[BaseName(entrada[i])] = entrada[i]


\* The durable state at the start of the cycle is the one a cycle leaves
\* that fetched and stored every entry of this catalog, 'producao' among
\* them: the DB file exists, and every listed name is recorded with the
\* listed string and has its table stored at that instant.
TudoArmazenadoAntes ==
  /\ pre.dbExists
  /\ "Producao.csv" \in NomesDe(lista_remota)
  /\ \A n \in NomesDe(lista_remota) :
       /\ ParseOk(RemotoDe(lista_remota, n))
       /\ pre.stateFile[n] = RemotoDe(lista_remota, n)
       /\ pre.tables[BaseName(n)]
            = TabLinhas(parse_datetime(RemotoDe(lista_remota, n)))

\* C25: a cycle that starts from that state and lists the same catalog
\* fetches nothing, writes no table, does not save and does not retrain;
\* the durable state is as it was.
C25_SecondCycleIdle ==
  (CicloTerminou /\ ciclos >= 2 /\ TudoArmazenadoAntes) =>
    /\ baixados = {} /\ escritas = {} /\ salvou = 0 /\ ~treinou
    /\ Duravel = pre

C25_Witness ==
  /\ CicloCompleto
  /\ ciclos = 2
  /\ Len(lista_remota) = 2
  /\ TudoArmazenadoAntes
  /\ baixados = {} /\ salvou = 0 /\ ~treinou
  /\ stateFile = pre.stateFile

\* The name is not in the listing of the cycle, or it is recorded and the
\* listing does not show a later instant for it.
AusenteOuIgual(n) ==
  \/ n \notin NomesDe(lista_remota)
  \/ /\ TemEntrada(pre.stateFile, n)
     /\ \/ ~ParseOk(RemotoDe(lista_remota, n))
        \/ parse_datetime(RemotoDe(lista_remota, n))
             <= parse_datetime(pre.stateFile[n])

\* C26: in a cycle whose step 0 did not remove state.json, the entry of a
\* name that is absent from the listing or unchanged is, at every position
\* of the cycle and after it, what it was when the cycle started.
C26_FrameOfUntouchedEntries ==
  (ciclos >= 1 /\ pc # "listing" /\ ~SemProducaoNoInicio) =>
    \A n \in Names : AusenteOuIgual(n) => stateFile[n] = pre.stateFile[n]

C26_Witness ==
  /\ CicloCompleto
  /\ ~SemProducaoNoInicio
  /\ salvou = 1
  /\ NomesDe(lista_remota) = {"Producao.csv"}
  /\ stateFile["Producao.csv"] # pre.stateFile["Producao.csv"]
  /\ TemEntrada(pre.stateFile, "Comercio.csv")
  /\ stateFile["Comercio.csv"] = pre.stateFile["Comercio.csv"]

====
